---- MODULE Spec2Model ----
(***************************************************************************)
(* Backup / import engine of sveltemark, as documented in                  *)
(* BACKUP_IMPORT_ADAPTER_ANALYSIS.md: exportBackup, importBackup, the      *)
(* storage adapters' serialize / deserialize and the cloud helpers.        *)
(*                                                                         *)
(* JavaScript values are tagged records, JSON text is a sequence of        *)
(* tokens: JSON.stringify and JSON.parse are a printer and a recursive     *)
(* descent parser over these tokens.                                       *)
(***************************************************************************)
EXTENDS Integers, Sequences, FiniteSets, TLC

(***************************************************************************)
(* Bounds of the model.                                                    *)
(***************************************************************************)
MaxFolders == 3
MaxFiles == 2
MaxImports == 2
MaxFailures == 1

(***************************************************************************)
(* JavaScript values.                                                      *)
(***************************************************************************)
JUndefined == [k |-> "undefined"]
JNull == [k |-> "null"]
JBool(b) == [k |-> "bool", b |-> b]
JNum(n) == [k |-> "num", n |-> n]
JStr(s) == [k |-> "str", s |-> s]
JArr(a) == [k |-> "arr", a |-> a]
\* An object is the sequence of its <<key, value>> properties, in insertion order.
JObj(o) == [k |-> "obj", o |-> o]

\* ToBoolean: what `!v` and `if (v)` test.
Truthy(v) ==
    CASE v.k = "undefined" -> FALSE
      [] v.k = "null" -> FALSE
      [] v.k = "bool" -> v.b
      [] v.k = "num" -> v.n # 0
      [] v.k = "str" -> v.s # ""
      [] OTHER -> TRUE

\* v.key for a value that is neither null nor undefined: the last property of
\* that name of an object, undefined for a primitive or a missing property.
Get(v, key) ==
    IF v.k # "obj" THEN JUndefined
    ELSE LET idx == {i \in 1..Len(v.o) : v.o[i][1] = key}
         IN IF idx = {} THEN JUndefined
            ELSE v.o[CHOOSE i \in idx : \A j \in idx : j <= i][2]

\* The values `for (const x of v)` yields; a string yields its characters (the
\* strings of this model have at most one character).
IsIterable(v) == v.k \in {"arr", "str"}

Elements(v) ==
    CASE v.k = "arr" -> v.a
      [] v.k = "str" -> IF v.s = "" THEN <<>> ELSE <<JStr(v.s)>>
      [] OTHER -> <<>>

(***************************************************************************)
(* JSON text: tokens.                                                      *)
(***************************************************************************)
TokP(p) == [t |-> "p", p |-> p]
TokLit(v) == [t |-> "lit", v |-> v]

RECURSIVE Stringify(_)
RECURSIVE StringifyElements(_, _)
RECURSIVE StringifyMembers(_, _)

\* JSON.stringify(v, null, 2), white space left out. An undefined property is
\* dropped, an undefined array element is written as null.
Stringify(v) ==
    CASE v.k = "arr" -> <<TokP("[")>> \o StringifyElements(v.a, 1) \o <<TokP("]")>>
      [] v.k = "obj" ->
            LET kept == SelectSeq(v.o, LAMBDA pr : pr[2].k # "undefined")
            IN <<TokP("{")>> \o StringifyMembers(kept, 1) \o <<TokP("}")>>
      [] v.k = "undefined" -> <<TokLit(JNull)>>
      [] OTHER -> <<TokLit(v)>>

StringifyElements(a, i) ==
    IF i > Len(a) THEN <<>>
    ELSE Stringify(a[i])
         \o (IF i < Len(a) THEN <<TokP(",")>> ELSE <<>>)
         \o StringifyElements(a, i + 1)

StringifyMembers(o, i) ==
    IF i > Len(o) THEN <<>>
    ELSE <<TokLit(JStr(o[i][1])), TokP(":")>> \o Stringify(o[i][2])
         \o (IF i < Len(o) THEN <<TokP(",")>> ELSE <<>>)
         \o StringifyMembers(o, i + 1)

ParseFail == [ok |-> FALSE, v |-> JUndefined, rest |-> <<>>]

IsP(ts, p) == ts # <<>> /\ Head(ts).t = "p" /\ Head(ts).p = p

RECURSIVE ParseValue(_)
RECURSIVE ParseElements(_, _)
RECURSIVE ParseMembers(_, _)

ParseValue(ts) ==
    IF ts = <<>> THEN ParseFail
    ELSE IF Head(ts).t = "lit" THEN [ok |-> TRUE, v |-> Head(ts).v, rest |-> Tail(ts)]
    ELSE IF IsP(ts, "[") THEN
        IF IsP(Tail(ts), "]")
        THEN [ok |-> TRUE, v |-> JArr(<<>>), rest |-> Tail(Tail(ts))]
        ELSE ParseElements(Tail(ts), <<>>)
    ELSE IF IsP(ts, "{") THEN
        IF IsP(Tail(ts), "}")
        THEN [ok |-> TRUE, v |-> JObj(<<>>), rest |-> Tail(Tail(ts))]
        ELSE ParseMembers(Tail(ts), <<>>)
    ELSE ParseFail

ParseElements(ts, acc) ==
    LET r == ParseValue(ts)
    IN IF ~r.ok THEN ParseFail
       ELSE IF IsP(r.rest, ",") THEN ParseElements(Tail(r.rest), Append(acc, r.v))
       ELSE IF IsP(r.rest, "]")
            THEN [ok |-> TRUE, v |-> JArr(Append(acc, r.v)), rest |-> Tail(r.rest)]
       ELSE ParseFail

ParseMembers(ts, acc) ==
    IF ~(Len(ts) >= 2 /\ ts[1].t = "lit" /\ ts[1].v.k = "str" /\ IsP(Tail(ts), ":"))
    THEN ParseFail
    ELSE LET r == ParseValue(Tail(Tail(ts)))
             pr == <<ts[1].v.s, r.v>>
         IN IF ~r.ok THEN ParseFail
            ELSE IF IsP(r.rest, ",") THEN ParseMembers(Tail(r.rest), Append(acc, pr))
            ELSE IF IsP(r.rest, "}")
                 THEN [ok |-> TRUE, v |-> JObj(Append(acc, pr)), rest |-> Tail(r.rest)]
            ELSE ParseFail

\* JSON.parse(text): the value, or a SyntaxError.
JSONparse(ts) ==
    LET r == ParseValue(ts)
    IN IF r.ok /\ r.rest = <<>> THEN [ok |-> TRUE, v |-> r.v]
       ELSE [ok |-> FALSE, v |-> JUndefined]

(***************************************************************************)
(* Snapshot codec: exportBackup and the adapters' serialize / deserialize. *)
(***************************************************************************)
AdapterIds == {"json-file", "google-drive", "github"}

\* new Date().toISOString(): the clock is not modelled, one instant stands for all.
Now == JStr("t")

\* BackupOf with the folders written where the files belong.
BackupOfFoldersTwice(fs, fl) ==
    JObj(<< <<"version", JNum(1)>>, <<"exportedAt", Now>>,
            <<"folders", JArr(fs)>>, <<"files", JArr(fs)>> >>)

\* The backup object literal of exportBackup and of each adapter's serialize.
BackupOf(fs, fl) ==
    JObj(<< <<"version", JNum(1)>>, <<"exportedAt", Now>>,
            <<"folders", JArr(fs)>>, <<"files", JArr(fl)>> >>)

exportBackup(fs, fl) == Stringify(BackupOf(fs, fl))

\* JSONAdapter, GoogleDriveAdapter and GitHubAdapter serialize alike.
Serialize(adapter, fs, fl) == Stringify(BackupOf(fs, fl))

\* The guard `!backup.folders || !backup.files` of importBackup and deserialize.
InvalidFormat(backup) ==
    ~Truthy(Get(backup, "folders")) \/ ~Truthy(Get(backup, "files"))

\* JSON.parse and the format guard: the backup, or the error thrown. A text that
\* does not parse throws SyntaxError, the text `null` makes backup.folders throw
\* TypeError, a falsy folders or files throws Error('Invalid ... backup format');
\* all three are the decode failure the design calls MalformedSnapshot. No
\* statement reads backup.version.
Decode(data) ==
    LET r == JSONparse(data)
    IN IF ~r.ok THEN [ok |-> FALSE, err |-> "MalformedSnapshot", v |-> JUndefined]
       ELSE IF r.v.k \in {"null", "undefined"}
            THEN [ok |-> FALSE, err |-> "MalformedSnapshot", v |-> JUndefined]
       ELSE IF InvalidFormat(r.v)
            THEN [ok |-> FALSE, err |-> "MalformedSnapshot", v |-> JUndefined]
       ELSE [ok |-> TRUE, err |-> "none", v |-> r.v]

\* The three adapters' deserialize differ in the error message only.
Deserialize(adapter, data) == Decode(data)

(***************************************************************************)
(* The repository operations importBackup awaits (createFolder,            *)
(* deleteFolder, toggleFolderOpen, createFile, deleteFile): the persistence*)
(* layer, an auto-increment store whose new folders are open.              *)
(***************************************************************************)
SetProp(obj, key, val) ==
    JObj([i \in 1..Len(obj.o) |->
            IF obj.o[i][1] = key THEN <<key, val>> ELSE obj.o[i]])

createFolder(fs, newId, name, parentId) ==
    Append(fs, JObj(<< <<"id", JNum(newId)>>, <<"name", name>>,
                       <<"parentId", parentId>>, <<"isOpen", JBool(TRUE)>> >>))

deleteFolder(fs, id) == SelectSeq(fs, LAMBDA f : Get(f, "id") # id)

toggleFolderOpen(fs, id) ==
    [i \in 1..Len(fs) |->
        IF Get(fs[i], "id") = id
        THEN SetProp(fs[i], "isOpen", JBool(~Truthy(Get(fs[i], "isOpen"))))
        ELSE fs[i]]

createFile(fl, newId, folderId, title, content) ==
    Append(fl, JObj(<< <<"id", JNum(newId)>>, <<"folderId", folderId>>,
                       <<"title", title>>, <<"content", content>>,
                       <<"createdAt", Now>>, <<"updatedAt", Now>> >>))

deleteFile(fl, id) == SelectSeq(fl, LAMBDA f : Get(f, "id") # id)

(***************************************************************************)
(* Backup texts handed to importBackup. A snapshot's identifiers are       *)
(* foreign: folder i of a snapshot has id 10 + i, file i has id 20 + i.    *)
(***************************************************************************)
FolderNames == <<"a", "b", "c", "d", "e">>
FileTitles == <<"t", "u", "v", "w">>
FileContents == <<"x", "y", "z", "q">>

SnapFolder(i, parentId, isOpen) ==
    JObj(<< <<"id", JNum(10 + i)>>, <<"name", JStr(FolderNames[i])>>,
            <<"parentId", parentId>>, <<"isOpen", JBool(isOpen)>> >>)

SnapFile(i, folderId) ==
    JObj(<< <<"id", JNum(20 + i)>>, <<"folderId", folderId>>,
            <<"title", JStr(FileTitles[i])>>, <<"content", JStr(FileContents[i])>>,
            <<"createdAt", Now>>, <<"updatedAt", Now>> >>)

\* null, or the id of one of the MaxFolders possible snapshot folders (a
\* reference to a folder the snapshot does not hold is dangling).
FolderRefs == {JNull} \cup {JNum(10 + i) : i \in 1..MaxFolders}

\* Every parent assignment, self references and cycles included; the first
\* folder of a snapshot (a root or a child, as its parentId says) may be closed.
SnapFolderLists ==
    UNION {{[i \in 1..n |-> SnapFolder(i, par[i], i # closedAt)] :
                par \in [1..n -> FolderRefs], closedAt \in {0, 1}} : n \in 0..MaxFolders}

\* MaxFiles files tell at most MaxFiles folders apart: they refer to the first
\* MaxFiles folder ids (any place of the tree, as the parentIds say), or to none.
FileRefs == {JNull} \cup {JNum(10 + i) : i \in 1..MaxFiles}

SnapFileLists ==
    UNION {{[i \in 1..m |-> SnapFile(i, fo[i])] : fo \in [1..m -> FileRefs]} :
                m \in 0..MaxFiles}

RawBackup(version, fs, fl) ==
    JObj(<< <<"version", version>>, <<"exportedAt", Now>>,
            <<"folders", fs>>, <<"files", fl>> >>)

SnapshotTexts ==
    {Stringify(RawBackup(JNum(1), JArr(fs), JArr(fl))) :
        fs \in SnapFolderLists, fl \in SnapFileLists}

EmptySnapshotText == Stringify(RawBackup(JNum(1), JArr(<<>>), JArr(<<>>)))

\* Texts that are no snapshot: not JSON, a missing or non-sequence folders or
\* files, a version of the future.
OddBackups ==
    {RawBackup(JNum(999), JArr(<<>>), JArr(<<>>)),
     RawBackup(JNum(999), JArr(<<SnapFolder(1, JNull, TRUE)>>), JArr(<<SnapFile(1, JNum(11))>>)),
     RawBackup(JNum(1), JUndefined, JArr(<<>>)),
     RawBackup(JNum(1), JArr(<<>>), JUndefined),
     RawBackup(JNum(1), JStr("s"), JArr(<<>>)),
     RawBackup(JNum(1), JArr(<<>>), JStr("s")),
     RawBackup(JNum(1), JArr(<<>>), JNum(5)),
     RawBackup(JNum(1), JObj(<<>>), JArr(<<>>)),
     RawBackup(JNum(1), JNum(0), JArr(<<>>)),
     JNull}

OddTexts == {Stringify(b) : b \in OddBackups} \cup {<<TokP("{")>>}

\* What a second import may be handed besides the text of the first.
ReimportTexts ==
    {EmptySnapshotText, Stringify(RawBackup(JNum(1), JUndefined, JArr(<<>>)))}

(***************************************************************************)
(* State.                                                                  *)
(***************************************************************************)
VARIABLES
    folders,        \* the app's folders, as the repository holds them
    files,          \* the app's files
    nextFolderId,   \* the repository's next folder key
    nextFileId,     \* the repository's next file key
    activeFileId,   \* the file selected in the editor
    pc,             \* where importBackup stands
    jsonString,     \* its argument
    backup,         \* JSON.parse(jsonString)
    todo,           \* what the running for-of loop has still to visit
    folderIdMap,    \* old folder id -> new folder id, as <<old, new>> pairs
    newId,          \* the folder just created, while its toggle is awaited
    result,         \* how the last importBackup ended
    imports,        \* importBackup calls so far
    ops,            \* repository operations the running import has issued
    before,         \* folders and files when the running import was called
    prev,           \* argument and result of the import before it
    failures,       \* repository operations that have rejected
    cpc, cAdapter, cIn, cData, cOut,  \* a serialize / deserialize exchange
    kpc,            \* where uploadToCloud / downloadFromCloud stands
    kOp,            \* which of the two was called
    kAdapter,       \* the adapter it was handed
    kId,            \* the id a download asks for
    kData,          \* the text it carries: serialized, or downloaded
    kSha,           \* sha of GitHubAdapter.uploadToRemote
    kPut,           \* the response to the request that carried the payload
    kGet,           \* the response to the request for the payload
    kOut,           \* how the call of the adapter's transport ended
    ghToken,        \* GitHubAdapter.token is set
    ghRepo,         \* GitHubAdapter.owner and .repo are set
    remote          \* the files of the GitHub repository, as <<path, text>> pairs

engineVars == <<folders, files, nextFolderId, nextFileId, activeFileId, pc,
                jsonString, backup, todo, folderIdMap, newId, result, imports,
                ops, before, prev, failures>>
codecVars == <<cpc, cAdapter, cIn, cData, cOut>>
cloudVars == <<kpc, kOp, kAdapter, kId, kData, kSha, kPut, kGet, kOut, ghToken, ghRepo, remote>>
vars == <<engineVars, codecVars, cloudVars>>

(***************************************************************************)
(* importBackup.                                                           *)
(***************************************************************************)
\* a ?? b
Nullish(a, b) == IF a.k \in {"undefined", "null"} THEN b ELSE a

\* folderIdMap[key]
MapGet(m, key) ==
    IF \E pr \in m : pr[1] = key
    THEN JNum((CHOOSE pr \in m : pr[1] = key)[2])
    ELSE JUndefined

\* folderIdMap[key] = value
MapSet(m, key, value) == {pr \in m : pr[1] # key} \cup {<<key, value>>}

\* NewParentId without the map: the snapshot's own parent id is passed on.
NewParentIdUnmapped(m, folder) == Get(folder, "parentId")

\* folder.parentId !== null ? folderIdMap[folder.parentId] ?? null : null
NewParentId(m, folder) ==
    IF Get(folder, "parentId") # JNull
    THEN Nullish(MapGet(m, Get(folder, "parentId")), JNull)
    ELSE JNull

\* NewFolderId without the map: the snapshot's own folder id is passed on.
NewFolderIdUnmapped(m, file) == Get(file, "folderId")

\* file.folderId !== null ? folderIdMap[file.folderId] ?? null : null
NewFolderId(m, file) ==
    IF Get(file, "folderId") # JNull
    THEN Nullish(MapGet(m, Get(file, "folderId")), JNull)
    ELSE JNull

Op(name, args) == [op |-> name, args |-> args, ok |-> TRUE]

\* The index in fs of the folder that fs[i].parentId names, 0 when there is none.
ParentIndex(fs, i) ==
    LET js == {j \in 1..Len(fs) : Get(fs[j], "id") = Get(fs[i], "parentId")
                                    /\ Get(fs[i], "parentId").k = "num"}
    IN IF js = {} THEN 0 ELSE CHOOSE j \in js : \A l \in js : j <= l

RECURSIVE ReachesRoot(_, _, _)
\* Following parentId from fs[i] ends, within fuel steps, at a folder without
\* a parent in fs.
ReachesRoot(fs, i, fuel) ==
    IF ParentIndex(fs, i) = 0 THEN TRUE
    ELSE IF fuel = 0 THEN FALSE
    ELSE ReachesRoot(fs, ParentIndex(fs, i), fuel - 1)

Acyclic(fs) == \A i \in 1..Len(fs) : ReachesRoot(fs, i, Len(fs))

Orderings(n) == {p \in [1..n -> 1..n] : \A i, j \in 1..n : p[i] = p[j] => i = j}

\* sortedFolders: the orders of the snapshot's folders in which every folder
\* comes after its parent (any of them; a folder on or below a cycle has no
\* such place and may come anywhere).
sortedFolders(fs) ==
    {[k \in 1..Len(fs) |-> fs[p[k]]] :
        p \in {q \in Orderings(Len(fs)) :
                 \A a, b \in 1..Len(fs) :
                    (ReachesRoot(fs, q[b], Len(fs)) /\ ParentIndex(fs, q[b]) = q[a])
                        => a < b}}

Thrown(err) ==
    /\ result' = err
    /\ pc' = "idle"
    /\ todo' = <<>>

\* ImportBackup with the format checked after the data is cleared.
ImportBackupValidateLate(js) ==
    /\ pc = "idle"
    /\ imports < MaxImports
    /\ failures < MaxFailures
    /\ imports' = imports + 1
    /\ jsonString' = js
    /\ before' = [folders |-> folders, files |-> files]
    /\ prev' = [jsonString |-> jsonString, result |-> result]
    /\ ops' = <<>>
    /\ folderIdMap' = {}
    /\ newId' = JNull
    /\ LET d == Decode(js)
       IN IF d.ok
          THEN /\ backup' = d.v
               /\ result' = "none"
               /\ pc' = "wipeFiles"
               /\ todo' = files
               /\ UNCHANGED <<folders, files>>
          ELSE /\ backup' = JUndefined
               /\ folders' = <<>>
               /\ files' = <<>>
               /\ Thrown(d.err)
    /\ UNCHANGED <<nextFolderId, nextFileId, activeFileId, failures>>
    /\ UNCHANGED <<codecVars, cloudVars>>

\* ImportBackup with the folders cleared first: the loop over the app's files
\* is left for later.
ImportBackupFoldersFirst(js) ==
    /\ pc = "idle"
    /\ imports < MaxImports
    /\ failures < MaxFailures
    /\ imports' = imports + 1
    /\ jsonString' = js
    /\ before' = [folders |-> folders, files |-> files]
    /\ prev' = [jsonString |-> jsonString, result |-> result]
    /\ ops' = <<>>
    /\ folderIdMap' = {}
    /\ newId' = JNull
    /\ LET d == Decode(js)
       IN IF d.ok
          THEN /\ backup' = d.v
               /\ result' = "none"
               /\ pc' = "wipeFolders"
               /\ todo' = folders
          ELSE /\ backup' = JUndefined
               /\ Thrown(d.err)
    /\ UNCHANGED <<folders, files, nextFolderId, nextFileId, activeFileId, failures>>
    /\ UNCHANGED <<codecVars, cloudVars>>

\* Lines 32-37: parse, check the format, start the loop over the app's files.
\* The model follows the app for MaxImports imports, or until MaxFailures
\* repository operations have rejected.
ImportBackup(js) ==
    /\ pc = "idle"
    /\ imports < MaxImports
    /\ failures < MaxFailures
    /\ imports' = imports + 1
    /\ jsonString' = js
    /\ before' = [folders |-> folders, files |-> files]
    /\ prev' = [jsonString |-> jsonString, result |-> result]
    /\ ops' = <<>>
    /\ folderIdMap' = {}
    /\ newId' = JNull
    /\ LET d == Decode(js)
       IN IF d.ok
          THEN /\ backup' = d.v
               /\ result' = "none"
               /\ pc' = "wipeFiles"
               /\ todo' = files
          ELSE /\ backup' = JUndefined
               /\ Thrown(d.err)
    /\ UNCHANGED <<folders, files, nextFolderId, nextFileId, activeFileId, failures>>
    /\ UNCHANGED <<codecVars, cloudVars>>

\* The repository operation the import is about to await, if any.
HasPendingOp ==
    \/ pc \in {"wipeFiles", "wipeFolders"} /\ todo # <<>> /\ Truthy(Get(Head(todo), "id"))
    \/ pc \in {"replayFolders", "replayFiles"} /\ todo # <<>>
    \/ pc = "toggle"

PendingOp ==
    CASE pc = "wipeFiles" -> Op("deleteFile", <<Get(Head(todo), "id")>>)
      [] pc = "wipeFolders" -> Op("deleteFolder", <<Get(Head(todo), "id")>>)
      [] pc = "replayFolders" ->
            Op("createFolder", <<Get(Head(todo), "name"), NewParentId(folderIdMap, Head(todo))>>)
      [] pc = "toggle" -> Op("toggleFolderOpen", <<newId>>)
      [] pc = "replayFiles" ->
            Op("createFile", <<NewFolderId(folderIdMap, Head(todo)),
                               Get(Head(todo), "title"), Get(Head(todo), "content")>>)

\* WipeFile with the delete left out.
WipeFileNoDelete ==
    /\ pc = "wipeFiles"
    /\ todo # <<>>
    /\ todo' = Tail(todo)
    /\ UNCHANGED <<folders, files, nextFolderId, nextFileId, activeFileId, pc, jsonString,
                   backup, folderIdMap, newId, result, imports, ops, before, prev, failures>>
    /\ UNCHANGED <<codecVars, cloudVars>>

\* Lines 40-42, one iteration: if (file.id) await deleteFile(file.id).
WipeFile ==
    /\ pc = "wipeFiles"
    /\ todo # <<>>
    /\ todo' = Tail(todo)
    /\ IF Truthy(Get(Head(todo), "id"))
       THEN /\ files' = deleteFile(files, Get(Head(todo), "id"))
            /\ ops' = Append(ops, PendingOp)
       ELSE UNCHANGED <<files, ops>>
    /\ UNCHANGED <<folders, nextFolderId, nextFileId, activeFileId, pc, jsonString,
                   backup, folderIdMap, newId, result, imports, before, prev, failures>>
    /\ UNCHANGED <<codecVars, cloudVars>>

\* WipeFilesDone with the loop over the folders left out.
WipeFilesDoneSkipFolders ==
    /\ pc = "wipeFiles"
    /\ todo = <<>>
    /\ pc' = "wipeFolders"
    /\ todo' = <<>>
    /\ UNCHANGED <<folders, files, nextFolderId, nextFileId, activeFileId, jsonString,
                   backup, folderIdMap, newId, result, imports, ops, before, prev, failures>>
    /\ UNCHANGED <<codecVars, cloudVars>>

\* Line 43: the loop over the app's folders starts.
WipeFilesDone ==
    /\ pc = "wipeFiles"
    /\ todo = <<>>
    /\ pc' = "wipeFolders"
    /\ todo' = folders
    /\ UNCHANGED <<folders, files, nextFolderId, nextFileId, activeFileId, jsonString,
                   backup, folderIdMap, newId, result, imports, ops, before, prev, failures>>
    /\ UNCHANGED <<codecVars, cloudVars>>

\* WipeFolder with the delete left out.
WipeFolderNoDelete ==
    /\ pc = "wipeFolders"
    /\ todo # <<>>
    /\ todo' = Tail(todo)
    /\ UNCHANGED <<folders, files, nextFolderId, nextFileId, activeFileId, pc, jsonString,
                   backup, folderIdMap, newId, result, imports, ops, before, prev, failures>>
    /\ UNCHANGED <<codecVars, cloudVars>>

\* Lines 43-45, one iteration: if (folder.id) await deleteFolder(folder.id).
WipeFolder ==
    /\ pc = "wipeFolders"
    /\ todo # <<>>
    /\ todo' = Tail(todo)
    /\ IF Truthy(Get(Head(todo), "id"))
       THEN /\ folders' = deleteFolder(folders, Get(Head(todo), "id"))
            /\ ops' = Append(ops, PendingOp)
       ELSE UNCHANGED <<folders, ops>>
    /\ UNCHANGED <<files, nextFolderId, nextFileId, activeFileId, pc, jsonString,
                   backup, folderIdMap, newId, result, imports, before, prev, failures>>
    /\ UNCHANGED <<codecVars, cloudVars>>

\* BeginFolderReplay without waiting for the loop over the app's folders to end.
BeginFolderReplayEarly ==
    /\ pc = "wipeFolders"
    /\ folderIdMap' = {}
    /\ IF IsIterable(Get(backup, "folders"))
       THEN /\ \E order \in sortedFolders(Elements(Get(backup, "folders"))) : todo' = order
            /\ pc' = "replayFolders"
            /\ UNCHANGED result
       ELSE Thrown("TypeError")
    /\ UNCHANGED <<folders, files, nextFolderId, nextFileId, activeFileId, jsonString,
                   backup, newId, imports, ops, before, prev, failures>>
    /\ UNCHANGED <<codecVars, cloudVars>>

\* Lines 49-50: the map is empty, the loop over sortedFolders starts. Ordering
\* something that is no sequence throws.
BeginFolderReplay ==
    /\ pc = "wipeFolders"
    /\ todo = <<>>
    /\ folderIdMap' = {}
    /\ IF IsIterable(Get(backup, "folders"))
       THEN /\ \E order \in sortedFolders(Elements(Get(backup, "folders"))) : todo' = order
            /\ pc' = "replayFolders"
            /\ UNCHANGED result
       ELSE Thrown("TypeError")
    /\ UNCHANGED <<folders, files, nextFolderId, nextFileId, activeFileId, jsonString,
                   backup, newId, imports, ops, before, prev, failures>>
    /\ UNCHANGED <<codecVars, cloudVars>>

\* ReplayFolder with the test of folder.isOpen inverted.
ReplayFolderToggleOpen ==
    /\ pc = "replayFolders"
    /\ todo # <<>>
    /\ LET folder == Head(todo)
           oldId == Get(folder, "id")
           newParentId == NewParentId(folderIdMap, folder)
       IN /\ folders' = createFolder(folders, nextFolderId, Get(folder, "name"), newParentId)
          /\ folderIdMap' = MapSet(folderIdMap, oldId, nextFolderId)
          /\ IF Get(folder, "isOpen") = JBool(TRUE)
             THEN pc' = "toggle" /\ newId' = JNum(nextFolderId)
             ELSE pc' = "replayFolders" /\ newId' = JNull
    /\ nextFolderId' = nextFolderId + 1
    /\ ops' = Append(ops, PendingOp)
    /\ todo' = Tail(todo)
    /\ UNCHANGED <<files, nextFileId, activeFileId, jsonString, backup, result,
                   imports, before, prev, failures>>
    /\ UNCHANGED <<codecVars, cloudVars>>

\* Lines 51-56, one iteration up to the test of folder.isOpen.
ReplayFolder ==
    /\ pc = "replayFolders"
    /\ todo # <<>>
    /\ LET folder == Head(todo)
           oldId == Get(folder, "id")
           newParentId == NewParentId(folderIdMap, folder)
       IN /\ folders' = createFolder(folders, nextFolderId, Get(folder, "name"), newParentId)
          /\ folderIdMap' = MapSet(folderIdMap, oldId, nextFolderId)
          /\ IF Get(folder, "isOpen") = JBool(FALSE)
             THEN pc' = "toggle" /\ newId' = JNum(nextFolderId)
             ELSE pc' = "replayFolders" /\ newId' = JNull
    /\ nextFolderId' = nextFolderId + 1
    /\ ops' = Append(ops, PendingOp)
    /\ todo' = Tail(todo)
    /\ UNCHANGED <<files, nextFileId, activeFileId, jsonString, backup, result,
                   imports, before, prev, failures>>
    /\ UNCHANGED <<codecVars, cloudVars>>

\* Line 57: await toggleFolderOpen(newId).
ToggleFolder ==
    /\ pc = "toggle"
    /\ folders' = toggleFolderOpen(folders, newId)
    /\ ops' = Append(ops, PendingOp)
    /\ pc' = "replayFolders"
    /\ newId' = JNull
    /\ UNCHANGED <<files, nextFolderId, nextFileId, activeFileId, jsonString, backup,
                   todo, folderIdMap, result, imports, before, prev, failures>>
    /\ UNCHANGED <<codecVars, cloudVars>>

\* BeginFileReplay with the files visited last to first.
BeginFileReplayReversed ==
    /\ pc = "replayFolders"
    /\ todo = <<>>
    /\ IF IsIterable(Get(backup, "files"))
       THEN /\ todo' = LET fl == Elements(Get(backup, "files"))
                       IN [i \in 1..Len(fl) |-> fl[Len(fl) + 1 - i]]
            /\ pc' = "replayFiles"
            /\ UNCHANGED result
       ELSE Thrown("TypeError")
    /\ UNCHANGED <<folders, files, nextFolderId, nextFileId, activeFileId, jsonString,
                   backup, folderIdMap, newId, imports, ops, before, prev, failures>>
    /\ UNCHANGED <<codecVars, cloudVars>>

\* Line 62: the loop over backup.files starts; a value that is not iterable
\* throws TypeError.
BeginFileReplay ==
    /\ pc = "replayFolders"
    /\ todo = <<>>
    /\ IF IsIterable(Get(backup, "files"))
       THEN /\ todo' = Elements(Get(backup, "files"))
            /\ pc' = "replayFiles"
            /\ UNCHANGED result
       ELSE Thrown("TypeError")
    /\ UNCHANGED <<folders, files, nextFolderId, nextFileId, activeFileId, jsonString,
                   backup, folderIdMap, newId, imports, ops, before, prev, failures>>
    /\ UNCHANGED <<codecVars, cloudVars>>

\* Lines 63-64, one iteration.
ReplayFile ==
    /\ pc = "replayFiles"
    /\ todo # <<>>
    /\ LET file == Head(todo)
           newFolderId == NewFolderId(folderIdMap, file)
       IN files' = createFile(files, nextFileId, newFolderId,
                              Get(file, "title"), Get(file, "content"))
    /\ nextFileId' = nextFileId + 1
    /\ ops' = Append(ops, PendingOp)
    /\ todo' = Tail(todo)
    /\ UNCHANGED <<folders, nextFolderId, activeFileId, pc, jsonString, backup,
                   folderIdMap, newId, result, imports, before, prev, failures>>
    /\ UNCHANGED <<codecVars, cloudVars>>

\* Lines 67-75: refreshData, the editor is reset, the first file is selected.
Finish ==
    /\ pc = "replayFiles"
    /\ todo = <<>>
    /\ activeFileId' = IF Len(files) > 0 THEN Get(files[1], "id") ELSE JNull
    /\ result' = "ok"
    /\ pc' = "idle"
    /\ UNCHANGED <<folders, files, nextFolderId, nextFileId, jsonString, backup, todo,
                   folderIdMap, newId, imports, ops, before, prev, failures>>
    /\ UNCHANGED <<codecVars, cloudVars>>

\* The awaited repository operation rejects: importBackup has no try/catch, the
\* rejection ends it where it stands.
RepoOpThrows ==
    /\ HasPendingOp
    /\ failures < MaxFailures
    /\ failures' = failures + 1
    /\ ops' = Append(ops, [PendingOp EXCEPT !.ok = FALSE])
    /\ Thrown("RepositoryError")
    /\ UNCHANGED <<folders, files, nextFolderId, nextFileId, activeFileId, jsonString,
                   backup, folderIdMap, newId, imports, before, prev>>
    /\ UNCHANGED <<codecVars, cloudVars>>

CodecIdle ==
    /\ cpc = "off"
    /\ cAdapter = "none"
    /\ cIn = [kind |-> "none"]
    /\ cData = <<>>
    /\ cOut = [ok |-> FALSE, err |-> "none", v |-> JUndefined]

EngineIdle ==
    /\ folders = <<>>
    /\ files = <<>>
    /\ nextFolderId = 1
    /\ nextFileId = 1
    /\ activeFileId = JNull
    /\ pc = "idle"
    /\ jsonString = <<>>
    /\ backup = JUndefined
    /\ todo = <<>>
    /\ folderIdMap = {}
    /\ newId = JNull
    /\ result = "none"
    /\ imports = 0
    /\ ops = <<>>
    /\ before = [folders |-> <<>>, files |-> <<>>]
    /\ prev = [jsonString |-> <<>>, result |-> "none"]
    /\ failures = 0

NoResponse == [got |-> FALSE, net |-> FALSE, status |-> 0, body |-> <<>>]

CloudIdle ==
    /\ kOp = "none"
    /\ kAdapter = "none"
    /\ kId = ""
    /\ kData = <<>>
    /\ kSha = JUndefined
    /\ kPut = NoResponse
    /\ kGet = NoResponse
    /\ kOut = [ok |-> FALSE, err |-> "none", v |-> JUndefined]

\* No cloud call is followed: no adapter is configured, nothing is stored.
CloudOff ==
    /\ kpc = "off"
    /\ CloudIdle
    /\ ghToken = FALSE
    /\ ghRepo = FALSE
    /\ remote = {}

Init == EngineIdle /\ CodecIdle /\ CloudOff

\* The first import is handed any text; a later one the same text again, or
\* one of ReimportTexts.
Next ==
    \/ \E js \in (IF imports = 0 THEN SnapshotTexts \cup OddTexts
                   ELSE {jsonString} \cup ReimportTexts) : ImportBackup(js)
    \/ WipeFile
    \/ WipeFilesDone
    \/ WipeFolder
    \/ BeginFolderReplay
    \/ ReplayFolder
    \/ ToggleFolder
    \/ BeginFileReplay
    \/ ReplayFile
    \/ Finish
    \/ RepoOpThrows

Spec == Init /\ [][Next]_vars

(***************************************************************************)
(* A serialize / deserialize exchange on its own: exportBackup with        *)
(* importBackup's decoding ("appState"), or one adapter's pair.            *)
(***************************************************************************)
Codecs == AdapterIds \cup {"appState"}

EncodeWith(c, fs, fl) ==
    IF c = "appState" THEN exportBackup(fs, fl) ELSE Serialize(c, fs, fl)

DecodeWith(c, data) ==
    IF c = "appState" THEN Decode(data) ELSE Deserialize(c, data)

Workspaces ==
    {[kind |-> "workspace", folders |-> fs, files |-> fl] :
        fs \in SnapFolderLists, fl \in SnapFileLists}

\* What a top-level field of a text may hold; undefined is a field left out.
FieldShapes ==
    {JUndefined, JNull, JBool(FALSE), JBool(TRUE), JNum(0), JNum(5), JStr(""),
     JStr("s"), JObj(<<>>), JObj(<< <<"length", JNum(0)>> >>), JArr(<<>>),
     JArr(<<SnapFolder(1, JNull, TRUE)>>)}

Versions == {JUndefined, JNum(0), JNum(1), JNum(2), JNum(999)}

RawTexts ==
    {[kind |-> "text", raw |-> RawBackup(v, fs, fl)] :
        v \in Versions, fs \in FieldShapes, fl \in FieldShapes}
    \cup {[kind |-> "text", raw |-> JNull], [kind |-> "text", raw |-> JNum(5)],
          [kind |-> "text", raw |-> JArr(<<>>)], [kind |-> "text", raw |-> JUndefined]}

\* The text of a raw input; an undefined raw stands for a text that is no JSON.
TextOf(raw) == IF raw = JUndefined THEN <<TokP("{")>> ELSE Stringify(raw)

CodecInit ==
    /\ EngineIdle
    /\ cpc = "start"
    /\ cAdapter = "none"
    /\ cIn \in Workspaces \cup RawTexts
    /\ cData = IF cIn.kind = "text" THEN TextOf(cIn.raw) ELSE <<>>
    /\ cOut = [ok |-> FALSE, err |-> "none", v |-> JUndefined]
    /\ CloudOff

CodecSerialize(c) ==
    /\ cpc = "start"
    /\ cIn.kind = "workspace"
    /\ cData' = EncodeWith(c, cIn.folders, cIn.files)
    /\ cAdapter' = c
    /\ cpc' = "serialized"
    /\ UNCHANGED <<cIn, cOut>>
    /\ UNCHANGED <<engineVars, cloudVars>>

CodecDeserialize(c) ==
    /\ \/ cpc = "serialized" /\ c = cAdapter
       \/ cpc = "start" /\ cIn.kind = "text"
    /\ cOut' = DecodeWith(c, cData)
    /\ cAdapter' = c
    /\ cpc' = "deserialized"
    /\ UNCHANGED <<cIn, cData>>
    /\ UNCHANGED <<engineVars, cloudVars>>

CodecNext ==
    \/ \E c \in Codecs : CodecSerialize(c)
    \/ \E c \in Codecs : CodecDeserialize(c)

SpecCodec == CodecInit /\ [][CodecNext]_vars

(***************************************************************************)
(* uploadToCloud and downloadFromCloud with the three adapters. fetch is   *)
(* the backend's answer: a rejection (no answer), or a status and a body.  *)
(***************************************************************************)
\* Lines 283 and 393 / 316 and 444: the adapters that define uploadToRemote /
\* downloadFromRemote; JSONAdapter defines neither.
HasUploadToRemote(a) == a \in {"google-drive", "github"}
HasDownloadFromRemote(a) == a \in {"google-drive", "github"}

\* `backups/backup-${date}.json`, the date being that of the one instant Now.
BackupPath == "backups/backup-t.json"
RemoteIds == {BackupPath, "backups/gone.json"}

\* btoa and the backend's decoding of the content it is sent.
btoa(data) == [b64 |-> data]
atob(content) == content.b64

Rejected == [got |-> TRUE, net |-> FALSE, status |-> 0, body |-> <<>>]
Response(status, body) == [got |-> TRUE, net |-> TRUE, status |-> status, body |-> body]

\* response.ok
ResponseOk(r) == r.net /\ r.status \in 200..299

\* What a backend sends with an error status: a JSON object with a message, or
\* a page that is no JSON.
ErrorBodies == {Stringify(JObj(<< <<"message", JStr("e")>> >>)), <<TokP("<")>>}
ErrorStatuses == {404, 500}

Resolves(id) == \E f \in remote : f[1] = id
StoredAt(id) == (CHOOSE f \in remote : f[1] = id)[2]

\* The answers to GET /contents/path: the file when there is one, 404 when
\* there is none, a failure of the backend or of the network at any time.
GetResponses(id, okBody) ==
    {Rejected}
    \cup {Response(500, b) : b \in ErrorBodies}
    \cup (IF Resolves(id) THEN {Response(200, okBody)}
          ELSE {Response(404, b) : b \in ErrorBodies})

\* The answers to PUT /contents/path.
PutResponses ==
    {Rejected, Response(201, Stringify(JObj(<< <<"content", JStr(BackupPath)>> >>)))}
    \cup {Response(st, b) : st \in ErrorStatuses, b \in ErrorBodies}

\* The texts a GitHub repository may hold at BackupPath.
RemoteTexts ==
    {EmptySnapshotText,
     Stringify(RawBackup(JNum(1),
        JArr(<<SnapFolder(1, JNum(12), FALSE), SnapFolder(2, JNull, TRUE)>>),
        JArr(<<SnapFile(1, JNum(11)), SnapFile(2, JNull)>>)))}

RemoteStores == {{}} \cup {{<<BackupPath, t>>} : t \in RemoteTexts}

\* The app's data when a cloud call is made: nothing, or two folders (the
\* second closed, in the first) and two files.
CloudWorkspaces ==
    {[folders |-> <<>>, files |-> <<>>],
     [folders |-> toggleFolderOpen(
                    createFolder(createFolder(<<>>, 1, JStr("a"), JNull), 2, JStr("b"), JNum(1)),
                    JNum(2)),
      files |-> createFile(createFile(<<>>, 1, JNum(2), JStr("t"), JStr("x")),
                           2, JNull, JStr("u"), JStr("y"))]}

CloudInit ==
    /\ \E w \in CloudWorkspaces :
          /\ folders = w.folders
          /\ files = w.files
          /\ nextFolderId = Len(w.folders) + 1
          /\ nextFileId = Len(w.files) + 1
    /\ activeFileId = JNull
    /\ pc = "idle"
    /\ jsonString = <<>>
    /\ backup = JUndefined
    /\ todo = <<>>
    /\ folderIdMap = {}
    /\ newId = JNull
    /\ result = "none"
    /\ imports = 0
    /\ ops = <<>>
    /\ before = [folders |-> <<>>, files |-> <<>>]
    /\ prev = [jsonString |-> <<>>, result |-> "none"]
    /\ failures = 0
    /\ CodecIdle
    /\ kpc = "idle"
    /\ CloudIdle
    /\ ghToken \in BOOLEAN
    /\ ghRepo \in BOOLEAN
    /\ remote \in RemoteStores

\* The call of the adapter's transport throws.
CloudThrown(err) ==
    /\ kOut' = [ok |-> FALSE, err |-> err, v |-> JUndefined]
    /\ kpc' = "done"

\* GitHubAdapter.authenticate, lines 360-373: the token is stored before the
\* test request, and stays whatever the answer.
GitHubAuthenticate ==
    /\ kpc = "idle"
    /\ ~ghToken
    /\ ghToken' = TRUE
    /\ UNCHANGED <<kpc, kOp, kAdapter, kId, kData, kSha, kPut, kGet, kOut, ghRepo, remote>>
    /\ UNCHANGED <<engineVars, codecVars>>

\* uploadToCloud, lines 497-504, up to the first fetch of uploadToRemote.
\* GoogleDriveAdapter has no accessToken (only authenticate sets it) and its
\* authenticate throws (line 336); GitHubAdapter throws without credentials.
UploadToCloud(a) ==
    /\ kpc = "idle"
    /\ kOp' = "upload"
    /\ kAdapter' = a
    /\ IF ~HasUploadToRemote(a)
       THEN CloudThrown("Unsupported") /\ UNCHANGED kData
       ELSE /\ kData' = Serialize(a, folders, files)
            /\ IF a = "google-drive" THEN CloudThrown("Unauthenticated")
               ELSE IF ~ghToken \/ ~ghRepo THEN CloudThrown("Unauthenticated")
               ELSE kpc' = "existing" /\ UNCHANGED kOut
    /\ UNCHANGED <<kId, kSha, kPut, kGet, ghToken, ghRepo, remote>>
    /\ UNCHANGED <<engineVars, codecVars>>

\* Lines 402-416: does the file exist? A rejected fetch throws; sha is read
\* from an ok answer only.
GitHubExisting(r) ==
    /\ kpc = "existing"
    /\ IF ~r.net THEN CloudThrown("TransportError") /\ UNCHANGED kSha
       ELSE /\ kSha' = IF ResponseOk(r) THEN Get(JSONparse(r.body).v, "sha") ELSE JUndefined
            /\ kpc' = "put"
            /\ UNCHANGED kOut
    /\ UNCHANGED <<kOp, kAdapter, kId, kData, kPut, kGet, ghToken, ghRepo, remote>>
    /\ UNCHANGED <<engineVars, codecVars>>

\* Lines 419-441: the PUT and the result. A rejected fetch throws, and so
\* does response.json() of a body that is no JSON; response.ok and the status
\* are not read. The backend stores the decoded content when it answers 2xx.
GitHubPut(r) ==
    /\ kpc = "put"
    /\ kPut' = r
    /\ remote' = IF ResponseOk(r)
                 THEN {f \in remote : f[1] # BackupPath} \cup {<<BackupPath, atob(btoa(kData))>>}
                 ELSE remote
    /\ IF ~r.net \/ ~JSONparse(r.body).ok
       THEN CloudThrown("TransportError")
       ELSE /\ kOut' = [ok |-> TRUE, err |-> "none",
                        v |-> [id |-> BackupPath, url |-> <<"blob/main", BackupPath>>]]
            /\ kpc' = "done"
    /\ UNCHANGED <<kOp, kAdapter, kId, kData, kSha, kGet, ghToken, ghRepo>>
    /\ UNCHANGED <<engineVars, codecVars>>

\* DownloadFromCloud without the test of adapter.downloadFromRemote.
DownloadFromCloudUnchecked(a, id) ==
    /\ kpc = "idle"
    /\ kOp' = "download"
    /\ kAdapter' = a
    /\ kId' = id
    /\ IF a = "google-drive" THEN CloudThrown("Unauthenticated")
       ELSE IF a = "github" /\ (~ghToken \/ ~ghRepo) THEN CloudThrown("Unauthenticated")
       ELSE kpc' = "get" /\ UNCHANGED kOut
    /\ UNCHANGED <<kData, kSha, kPut, kGet, ghToken, ghRepo, remote>>
    /\ UNCHANGED <<engineVars, codecVars>>

\* downloadFromCloud, lines 507-515, up to the fetch of downloadFromRemote.
DownloadFromCloud(a, id) ==
    /\ kpc = "idle"
    /\ kOp' = "download"
    /\ kAdapter' = a
    /\ kId' = id
    /\ IF ~HasDownloadFromRemote(a) THEN CloudThrown("Unsupported")
       ELSE IF a = "google-drive" THEN CloudThrown("Unauthenticated")
       ELSE IF ~ghToken \/ ~ghRepo THEN CloudThrown("Unauthenticated")
       ELSE kpc' = "get" /\ UNCHANGED kOut
    /\ UNCHANGED <<kData, kSha, kPut, kGet, ghToken, ghRepo, remote>>
    /\ UNCHANGED <<engineVars, codecVars>>

\* Lines 449-459: the fetch and `return await response.text()`. A rejected
\* fetch throws; the body is returned whatever the status.
GitHubGet(r) ==
    /\ kpc = "get"
    /\ kGet' = r
    /\ IF ~r.net THEN CloudThrown("TransportError") /\ UNCHANGED kData
       ELSE /\ kData' = r.body
            /\ kOut' = [ok |-> TRUE, err |-> "none", v |-> r.body]
            /\ kpc' = "downloaded"
    /\ UNCHANGED <<kOp, kAdapter, kId, kSha, kPut, ghToken, ghRepo, remote>>
    /\ UNCHANGED <<engineVars, codecVars>>

\* Line 516 and lines 481-489: the downloaded text is handed to the adapter's
\* deserialize and to "the rest of the import logic", that of importBackup.
ImportBackupWithAdapter ==
    /\ kpc = "downloaded"
    /\ imports = 0
    /\ ImportBackup(kData)

CloudNext ==
    \/ GitHubAuthenticate
    \/ \E a \in AdapterIds : UploadToCloud(a)
    \/ \E r \in GetResponses(BackupPath, Stringify(JObj(<< <<"sha", JStr("s")>> >>))) :
          GitHubExisting(r)
    \/ \E r \in PutResponses : GitHubPut(r)
    \/ \E a \in AdapterIds, id \in RemoteIds : DownloadFromCloud(a, id)
    \/ \E r \in (IF kpc = "get" THEN GetResponses(kId, IF Resolves(kId) THEN StoredAt(kId) ELSE <<>>)
                   ELSE {}) : GitHubGet(r)
    \/ ImportBackupWithAdapter
    \/ WipeFile
    \/ WipeFilesDone
    \/ WipeFolder
    \/ BeginFolderReplay
    \/ ReplayFolder
    \/ ToggleFolder
    \/ BeginFileReplay
    \/ ReplayFile
    \/ Finish
    \/ RepoOpThrows

SpecCloud == CloudInit /\ [][CloudNext]_vars

(***************************************************************************)
(* Properties of the codec, under SpecCodec.                               *)
(***************************************************************************)
Decoded(kind) == cpc = "deserialized" /\ cIn.kind = kind

\* C7: a workspace that is serialized and then deserialized, by exportBackup and
\* importBackup's decoding or by any one adapter, comes back as a backup whose
\* folders and files are sequences equal to the workspace's, element for
\* element and in the same order.
C7_RoundTrip ==
    Decoded("workspace") =>
        /\ cOut.ok
        /\ Get(cOut.v, "folders") = JArr(cIn.folders)
        /\ Get(cOut.v, "files") = JArr(cIn.files)

C7_Witness ==
    /\ Decoded("workspace")
    /\ cAdapter = "github"
    /\ Len(cIn.folders) = 3
    /\ Len(cIn.files) = 2
    /\ Get(cOut.v, "folders") = JArr(cIn.folders)
    /\ Get(cOut.v, "files") = JArr(cIn.files)

C7_WitnessEmpty ==
    /\ Decoded("workspace")
    /\ cIn.folders = <<>>
    /\ cIn.files = <<>>
    /\ cOut.ok

VersionOf(raw) == IF raw.k = "obj" THEN Get(raw, "version") ELSE JUndefined

IsSequence(v) == v.k = "arr"

\* C8: decoding a text whose version is a number greater than 1 (and whose
\* folders and files are sequences, so that nothing else is wrong with it)
\* fails with UnsupportedVersion and returns no snapshot.
C8_UnsupportedVersion ==
    (/\ Decoded("text")
     /\ VersionOf(cIn.raw).k = "num"
     /\ VersionOf(cIn.raw).n > 1
     /\ IsSequence(Get(cIn.raw, "folders"))
     /\ IsSequence(Get(cIn.raw, "files")))
        => (~cOut.ok /\ cOut.err = "UnsupportedVersion")

\* C9: decoding a JSON object fails with MalformedSnapshot when its folders or
\* its files is absent or is no sequence, and succeeds when both are sequences.
C9_MalformedTopLevel ==
    (Decoded("text") /\ cIn.raw.k = "obj") =>
        IF IsSequence(Get(cIn.raw, "folders")) /\ IsSequence(Get(cIn.raw, "files"))
        THEN cOut.ok
        ELSE ~cOut.ok /\ cOut.err = "MalformedSnapshot"

(***************************************************************************)
(* Properties of importBackup, under Spec.                                 *)
(***************************************************************************)
\* The snapshot the running (or last) import decoded.
WellFormed ==
    /\ backup.k = "obj"
    /\ IsSequence(Get(backup, "folders"))
    /\ IsSequence(Get(backup, "files"))

SnapFolders == Elements(Get(backup, "folders"))
SnapFiles == Elements(Get(backup, "files"))

\* The index in fs of the record whose id is `id`, 0 when there is none.
IndexOfId(fs, id) ==
    LET js == {j \in 1..Len(fs) : Get(fs[j], "id") = id /\ id.k = "num"}
    IN IF js = {} THEN 0 ELSE CHOOSE j \in js : \A l \in js : j <= l

HasDanglingFile ==
    \E i \in 1..Len(SnapFiles) :
        /\ Get(SnapFiles[i], "folderId") # JNull
        /\ IndexOfId(SnapFolders, Get(SnapFiles[i], "folderId")) = 0

HasDanglingParent ==
    \E i \in 1..Len(SnapFolders) :
        /\ Get(SnapFolders[i], "parentId") # JNull
        /\ IndexOfId(SnapFolders, Get(SnapFolders[i], "parentId")) = 0

\* A snapshot as the data model wants it: a forest, every reference resolved.
ValidSnapshot ==
    /\ WellFormed
    /\ Acyclic(SnapFolders)
    /\ ~HasDanglingParent
    /\ ~HasDanglingFile

Ended == pc = "idle" /\ imports > 0

\* The indices in rs of the records whose field `key` equals that of record s.
Same(rs, key, s) == {r \in 1..Len(rs) : Get(rs[r], key) = Get(s, key)}

RECURSIVE PathOf(_, _, _)
\* The names from folder i of fs up to its root.
PathOf(fs, i, fuel) ==
    IF ParentIndex(fs, i) = 0 \/ fuel = 0 THEN <<Get(fs[i], "name")>>
    ELSE <<Get(fs[i], "name")>> \o PathOf(fs, ParentIndex(fs, i), fuel - 1)

\* What a tree looks like with its identifiers forgotten: each folder path with
\* the number of folders that have it, and each file, in order, with its title,
\* its content and the path of its folder (empty for an unfiled file).
Shape(fs, fl) ==
    << {<<PathOf(fs, i, Len(fs)),
          Cardinality({j \in 1..Len(fs) : PathOf(fs, j, Len(fs)) = PathOf(fs, i, Len(fs))})>> :
            i \in 1..Len(fs)},
       [i \in 1..Len(fl) |->
          <<Get(fl[i], "title"), Get(fl[i], "content"),
            IF Get(fl[i], "folderId") = JNull THEN <<>>
            ELSE IF IndexOfId(fs, Get(fl[i], "folderId")) = 0 THEN <<JUndefined>>
            ELSE PathOf(fs, IndexOfId(fs, Get(fl[i], "folderId")), Len(fs))>>] >>

\* C1: an import of a snapshot with a file whose folderId names no folder of
\* the snapshot issues no repository operation, leaves folders and files as
\* they were, and ends in DanglingReference.
C1_DanglingRejected ==
    (imports > 0 /\ WellFormed /\ HasDanglingFile) =>
        /\ ops = <<>>
        /\ folders = before.folders
        /\ files = before.files
        /\ pc = "idle" => result = "DanglingReference"

\* C2: an import of a snapshot whose parentIds hold a cycle (and whose file
\* references resolve, no repository operation rejecting) ends in
\* CyclicHierarchy.
C2_CycleRejected ==
    (/\ Ended
     /\ WellFormed
     /\ ~Acyclic(SnapFolders)
     /\ ~HasDanglingFile
     /\ result # "RepositoryError")
        => result = "CyclicHierarchy"

\* C3: after an import of a valid snapshot has gone through, the repository
\* holds, for every snapshot folder, one folder of its name; that folder is a
\* root when the snapshot folder's parentId is null, and otherwise its parent
\* is the folder that has the name of the snapshot parent.
C3_HierarchyPreserved ==
    (Ended /\ result = "ok" /\ ValidSnapshot) =>
        \A i \in 1..Len(SnapFolders) :
            LET rs == Same(folders, "name", SnapFolders[i])
                r == CHOOSE r \in rs : TRUE
                p == ParentIndex(SnapFolders, i)
                q == IndexOfId(folders, Get(folders[r], "parentId"))
            IN /\ Cardinality(rs) = 1
               /\ IF Get(SnapFolders[i], "parentId") = JNull
                  THEN Get(folders[r], "parentId") = JNull
                  ELSE /\ q # 0
                       /\ Get(folders[q], "name") = Get(SnapFolders[p], "name")

\* A chain of three snapshot folders, each listed before its parent, has been
\* imported: the repository holds the grandchild under the child under the root.
C3_Witness ==
    /\ Ended /\ result = "ok" /\ ValidSnapshot
    /\ Len(SnapFolders) = 3
    /\ ParentIndex(SnapFolders, 1) = 2
    /\ ParentIndex(SnapFolders, 2) = 3
    /\ Get(SnapFolders[3], "parentId") = JNull
    /\ \E r \in 1..Len(folders) :
          /\ Get(folders[r], "name") = Get(SnapFolders[1], "name")
          /\ Len(PathOf(folders, r, Len(folders))) = 3

\* C4: after an import has gone through, every snapshot file has one file of
\* its title and content in the repository; that file is unfiled when the
\* snapshot file's folderId is null, and when the folderId names a snapshot
\* folder it is in the repository folder of that folder's name.
C4_FilePlacement ==
    (Ended /\ result = "ok" /\ WellFormed) =>
        \A i \in 1..Len(SnapFiles) :
            LET rs == Same(files, "title", SnapFiles[i])
                r == CHOOSE r \in rs : TRUE
                s == IndexOfId(SnapFolders, Get(SnapFiles[i], "folderId"))
                q == IndexOfId(folders, Get(files[r], "folderId"))
            IN /\ Cardinality(rs) = 1
               /\ Get(files[r], "content") = Get(SnapFiles[i], "content")
               /\ Get(SnapFiles[i], "folderId") = JNull => Get(files[r], "folderId") = JNull
               /\ s # 0 => /\ q # 0
                           /\ Get(folders[q], "name") = Get(SnapFolders[s], "name")

\* A second import has placed one file in a folder that is not the first one
\* created, and left another unfiled.
C4_Witness ==
    /\ Ended /\ result = "ok" /\ ValidSnapshot /\ imports = 2
    /\ Len(SnapFiles) = 2
    /\ Get(SnapFiles[1], "folderId") = JNum(12)
    /\ Get(SnapFiles[2], "folderId") = JNull
    /\ IndexOfId(folders, Get(files[1], "folderId")) # 0
    /\ Get(files[1], "folderId") # JNum(12)
    /\ Get(files[2], "folderId") = JNull

IsEmptySnapshot == WellFormed /\ SnapFolders = <<>> /\ SnapFiles = <<>>

\* C5: an import of the empty snapshot, no repository operation rejecting, goes
\* through and leaves no folder and no file.
C5_EmptySnapshotEmpties ==
    (Ended /\ IsEmptySnapshot /\ result # "RepositoryError") =>
        /\ result = "ok"
        /\ folders = <<>>
        /\ files = <<>>

C5_Witness ==
    /\ Ended /\ IsEmptySnapshot /\ result = "ok"
    /\ Len(before.folders) >= 2
    /\ Len(before.files) >= 1
    /\ folders = <<>>
    /\ files = <<>>

\* The import that has just gone through was handed the text of the import
\* before it, which went through too.
SecondOfTwo ==
    /\ Ended /\ result = "ok"
    /\ imports >= 2
    /\ prev.result = "ok"
    /\ prev.jsonString = jsonString

\* C6: when a valid snapshot is imported twice in succession, the repository
\* after the second import has the shape it had after the first (before, the
\* state the second import found): the same folder paths, each as often, and
\* the same files with the same titles, contents and folder paths.
C6_DoubleImport ==
    (SecondOfTwo /\ ValidSnapshot) =>
        /\ Shape(folders, files) = Shape(before.folders, before.files)
        /\ Len(folders) = Len(before.folders)

C6_Witness ==
    /\ SecondOfTwo /\ ValidSnapshot
    /\ Len(SnapFolders) = 3
    /\ Len(SnapFiles) = 2
    /\ \E i \in 1..3 : Get(SnapFolders[i], "parentId") # JNull
    /\ Shape(folders, files) = Shape(before.folders, before.files)
    /\ \A i \in 1..Len(folders) : IndexOfId(before.folders, Get(folders[i], "id")) = 0

PhaseOf(o) ==
    CASE o.op \in {"deleteFile", "deleteFolder"} -> 1
      [] o.op \in {"createFolder", "toggleFolderOpen"} -> 2
      [] o.op = "createFile" -> 3

\* The places in ops of the operations of one of the names.
Issued(names) == {i \in 1..Len(ops) : ops[i].op \in names}

\* Those that have completed.
Completed(names) == {i \in Issued(names) : ops[i].ok}

ClosedSnapFolders ==
    {i \in 1..Len(SnapFolders) : Get(SnapFolders[i], "isOpen") = JBool(FALSE)}

\* C11: in the operations of one import no delete follows a create and no
\* createFolder or toggleFolderOpen follows a createFile; when a createFolder
\* has been issued, a delete has completed for every file and every folder the
\* import found; when a createFile has been issued, a createFolder has
\* completed for every snapshot folder and a toggleFolderOpen for every closed
\* one.
C11_PhasesSequenced ==
    /\ \A i, j \in 1..Len(ops) : i < j => PhaseOf(ops[i]) <= PhaseOf(ops[j])
    /\ Issued({"createFolder"}) # {} =>
          /\ \A f \in 1..Len(before.files) :
                \E i \in Completed({"deleteFile"}) :
                    ops[i].args = <<Get(before.files[f], "id")>>
          /\ \A f \in 1..Len(before.folders) :
                \E i \in Completed({"deleteFolder"}) :
                    ops[i].args = <<Get(before.folders[f], "id")>>
    /\ Issued({"createFile"}) # {} =>
          /\ Cardinality(Completed({"createFolder"})) = Len(SnapFolders)
          /\ Cardinality(Completed({"toggleFolderOpen"})) = Cardinality(ClosedSnapFolders)

\* A second import has deleted files and folders, created folders, closed one
\* and started to create files.
C11_Witness ==
    /\ imports = 2
    /\ before.files # <<>>
    /\ Len(before.folders) >= 2
    /\ Cardinality(Completed({"createFolder"})) >= 2
    /\ Completed({"toggleFolderOpen"}) # {}
    /\ Completed({"createFile"}) # {}
    /\ C11_PhasesSequenced

\* The createFile calls the import has issued, in the order of their issue.
CreateFileOps == SelectSeq(ops, LAMBDA o : o.op = "createFile")

\* C12: the i-th createFile an import issues carries the title and the content
\* of the i-th file of the snapshot, and is issued when the ones before it
\* have completed; after an import that went through there is one call per
\* snapshot file and the repository holds the files in the snapshot's order.
C12_FilesInSnapshotOrder ==
    /\ Len(CreateFileOps) <= Len(SnapFiles)
    /\ \A i \in 1..Len(CreateFileOps) :
          /\ CreateFileOps[i].args[2] = Get(SnapFiles[i], "title")
          /\ CreateFileOps[i].args[3] = Get(SnapFiles[i], "content")
          /\ i < Len(CreateFileOps) => CreateFileOps[i].ok
    /\ (Ended /\ result = "ok") =>
          /\ Len(CreateFileOps) = Len(SnapFiles)
          /\ Len(files) = Len(SnapFiles)
          /\ \A i \in 1..Len(SnapFiles) :
                Get(files[i], "title") = Get(SnapFiles[i], "title")

\* Two files have been created, the first in the folder the snapshot lists
\* second and the second in the folder it lists first: they are in the
\* snapshot's order, not in the order of their folders.
C12_Witness ==
    /\ Ended /\ result = "ok" /\ ValidSnapshot
    /\ Len(SnapFiles) = 2
    /\ Len(SnapFolders) >= 2
    /\ Get(SnapFiles[1], "folderId") = Get(SnapFolders[2], "id")
    /\ Get(SnapFiles[2], "folderId") = Get(SnapFolders[1], "id")
    /\ Len(CreateFileOps) = 2
    /\ Get(files[1], "title") = Get(SnapFiles[1], "title")
    /\ Get(files[2], "title") = Get(SnapFiles[2], "title")

\* The deletes of the import that were rejected.
FailedDeletes == Issued({"deleteFile", "deleteFolder"}) \ Completed({"deleteFile", "deleteFolder"})

\* C13: when a deleteFile or deleteFolder of an import is rejected, the import
\* has, by its end, still issued a delete for every file and every folder it
\* found in the repository.
C13_WipeBestEffort ==
    (Ended /\ FailedDeletes # {}) =>
        /\ \A f \in 1..Len(before.files) :
              \E i \in Issued({"deleteFile"}) : ops[i].args = <<Get(before.files[f], "id")>>
        /\ \A f \in 1..Len(before.folders) :
              \E i \in Issued({"deleteFolder"}) : ops[i].args = <<Get(before.folders[f], "id")>>

\* The import is about to issue createFolder for a snapshot folder that has a
\* parentId.
AboutToCreateChild ==
    /\ pc = "replayFolders"
    /\ todo # <<>>
    /\ WellFormed
    /\ Get(Head(todo), "parentId") # JNull

\* C16: when createFolder is about to be issued for a snapshot folder with a
\* non-null parentId, folderIdMap holds an entry for that parentId and the
\* parent handed to createFolder is that entry, never null.
C16_ParentMapped ==
    AboutToCreateChild =>
        /\ MapGet(folderIdMap, Get(Head(todo), "parentId")) # JUndefined
        /\ NewParentId(folderIdMap, Head(todo)) = MapGet(folderIdMap, Get(Head(todo), "parentId"))
        /\ NewParentId(folderIdMap, Head(todo)) # JNull

Wiping == pc \in {"wipeFiles", "wipeFolders"}

\* C17: an import issues no deleteFile after a deleteFolder, and when it
\* issues a deleteFolder a deleteFile has completed for every file it found;
\* while it is clearing the repository, no file still there is in a folder that
\* has already been deleted.
C17_FilesBeforeFolders ==
    /\ \A i, j \in 1..Len(ops) :
          i < j => ~(ops[i].op = "deleteFolder" /\ ops[j].op = "deleteFile")
    /\ Issued({"deleteFolder"}) # {} =>
          \A f \in 1..Len(before.files) :
              \E i \in Completed({"deleteFile"}) : ops[i].args = <<Get(before.files[f], "id")>>
    /\ Wiping =>
          \A f \in 1..Len(files) :
              (/\ Get(files[f], "folderId") # JNull
               /\ IndexOfId(before.folders, Get(files[f], "folderId")) # 0)
                  => IndexOfId(folders, Get(files[f], "folderId")) # 0

\* A folder has been deleted whose file was deleted before it.
C17_Witness ==
    /\ Wiping
    /\ files = <<>>
    /\ \E i \in Completed({"deleteFolder"}) :
          /\ IndexOfId(folders, ops[i].args[1]) = 0
          /\ \E f \in 1..Len(before.files) :
                /\ Get(before.files[f], "folderId") = ops[i].args[1]
                /\ \E j \in Completed({"deleteFile"}) :
                      j < i /\ ops[j].args = <<Get(before.files[f], "id")>>

\* C18: every toggleFolderOpen an import issues follows the createFolder of
\* the folder it names, and no folder is named twice; after an import that
\* went through there is one toggleFolderOpen per snapshot folder whose isOpen
\* is false, and every snapshot folder's folder in the repository (the one of
\* its name) has the snapshot folder's isOpen.
C18_ClosedStateRestored ==
    /\ \A i \in Issued({"toggleFolderOpen"}) :
          /\ i > 1
          /\ ops[i - 1].op = "createFolder"
          /\ \A j \in Issued({"toggleFolderOpen"}) : ops[i].args = ops[j].args => i = j
    /\ (Ended /\ result = "ok" /\ WellFormed) =>
          /\ Cardinality(Issued({"toggleFolderOpen"})) = Cardinality(ClosedSnapFolders)
          /\ \A i \in 1..Len(SnapFolders) :
                \A r \in Same(folders, "name", SnapFolders[i]) :
                    Get(folders[r], "isOpen") = Get(SnapFolders[i], "isOpen")

\* A snapshot of three folders, the first of them closed and a child, has
\* been imported: the repository holds that one closed and the others open.
C18_Witness ==
    /\ Ended /\ result = "ok" /\ ValidSnapshot
    /\ Len(SnapFolders) = 3
    /\ ClosedSnapFolders = {1}
    /\ Get(SnapFolders[1], "parentId") # JNull
    /\ Cardinality(Completed({"toggleFolderOpen"})) = 1
    /\ \E r \in 1..Len(folders) :
          /\ Get(folders[r], "name") = Get(SnapFolders[1], "name")
          /\ Get(folders[r], "isOpen") = JBool(FALSE)
    /\ \E r \in 1..Len(folders) :
          /\ Get(folders[r], "name") = Get(SnapFolders[2], "name")
          /\ Get(folders[r], "isOpen") = JBool(TRUE)

\* C19: when an import of a snapshot whose parentIds hold a cycle has ended
\* (its file references resolved, no repository operation rejected), it has
\* reported CyclicHierarchy and the repository holds no folder and no file.
C19_CycleLeavesEmpty ==
    (/\ Ended
     /\ WellFormed
     /\ ~Acyclic(SnapFolders)
     /\ ~HasDanglingFile
     /\ result # "RepositoryError")
        => /\ result = "CyclicHierarchy"
           /\ folders = <<>>
           /\ files = <<>>

\* C20: after an import that went through, the repository holds as many
\* folders as the snapshot has folder records, one of each record's name, and
\* as many files as it has file records, one of each record's title; none of
\* them has the id of a folder or file the import found; folderIdMap has one
\* entry per snapshot folder id, and different ids have different new ids,
\* each the id of a folder of the repository.
C20_ExactlyTheSnapshot ==
    (Ended /\ result = "ok" /\ WellFormed) =>
        /\ Len(folders) = Len(SnapFolders)
        /\ Len(files) = Len(SnapFiles)
        /\ \A i \in 1..Len(SnapFolders) :
              Cardinality(Same(folders, "name", SnapFolders[i])) = 1
        /\ \A i \in 1..Len(SnapFiles) :
              Cardinality(Same(files, "title", SnapFiles[i])) = 1
        /\ \A r \in 1..Len(folders) : IndexOfId(before.folders, Get(folders[r], "id")) = 0
        /\ \A r \in 1..Len(files) : IndexOfId(before.files, Get(files[r], "id")) = 0
        /\ {pr[1] : pr \in folderIdMap} = {Get(SnapFolders[i], "id") : i \in 1..Len(SnapFolders)}
        /\ \A pr, qr \in folderIdMap : (pr[1] = qr[1]) <=> (pr[2] = qr[2])
        /\ \A pr \in folderIdMap : IndexOfId(folders, JNum(pr[2])) # 0

\* A snapshot of three folders and two files has replaced a repository that
\* held folders and files.
C20_Witness ==
    /\ Ended /\ result = "ok" /\ WellFormed
    /\ imports = 2
    /\ Len(before.folders) >= 2
    /\ Len(before.files) >= 1
    /\ Len(SnapFolders) = 3
    /\ Len(SnapFiles) = 2
    /\ Len(folders) = 3
    /\ Len(files) = 2
    /\ Cardinality(folderIdMap) = 3

(***************************************************************************)
(* Properties of uploadToCloud and downloadFromCloud, under SpecCloud.     *)
(***************************************************************************)
UploadEnded == kOp = "upload" /\ kpc = "done" /\ HasUploadToRemote(kAdapter)

\* C14: an upload through a remote adapter whose request with the payload was
\* rejected or answered with a status outside 2xx ends in TransportError; it
\* returns an id and a url only when that request was answered 2xx, the
\* payload then being stored under the id.
C14_UploadTransportError ==
    UploadEnded =>
        /\ (kPut.got /\ ~ResponseOk(kPut)) => (~kOut.ok /\ kOut.err = "TransportError")
        /\ kOut.ok => (kPut.got /\ ResponseOk(kPut) /\ Resolves(kOut.v.id))

\* The download asked for an id the backend does not hold, and was answered 404.
DownloadNotResolved ==
    /\ kOp = "download"
    /\ HasDownloadFromRemote(kAdapter)
    /\ kGet.got
    /\ kGet.status = 404
    /\ ~Resolves(kId)

\* C15: a download of an id that does not resolve ends in NotFound; the body
\* of the answer is handed to no import, and no repository operation is issued.
C15_DownloadNotFound ==
    DownloadNotResolved =>
        /\ ~kOut.ok
        /\ kOut.err = "NotFound"
        /\ imports = 0
        /\ ops = <<>>

\* uploadToCloud or downloadFromCloud was called with an adapter that does
\* not define the transport it needs.
CalledWithoutCapability ==
    \/ kOp = "upload" /\ ~HasUploadToRemote(kAdapter)
    \/ kOp = "download" /\ ~HasDownloadFromRemote(kAdapter)

\* C21: a call of uploadToCloud or downloadFromCloud with an adapter that lacks
\* the transport has ended with an error at once: nothing was serialized or
\* downloaded, no request was sent, no import was started and no repository
\* operation issued, and the app's folders and files are as they were.
C21_NoCapabilityFailsFirst ==
    CalledWithoutCapability =>
        /\ kpc = "done"
        /\ ~kOut.ok
        /\ kOut.err = "Unsupported"
        /\ kData = <<>>
        /\ ~kPut.got
        /\ ~kGet.got
        /\ imports = 0
        /\ pc = "idle"
        /\ ops = <<>>
        /\ \E w \in CloudWorkspaces : folders = w.folders /\ files = w.files

\* A download through the JSON file adapter, of an id the backend holds, has
\* ended in the error; the app still has its folders and files.
C21_Witness ==
    /\ kOp = "download"
    /\ kAdapter = "json-file"
    /\ Resolves(kId)
    /\ kpc = "done"
    /\ kOut.err = "Unsupported"
    /\ folders # <<>>
    /\ files # <<>>

====
